---- MODULE Spec2Model ----
(***************************************************************************)
(* Model of generate.py, the arity-expansion generator of tonivade/diesel. *)
(*                                                                         *)
(* Three specifications share the module:                                  *)
(*   Spec       one run of the driver (lines 67-85): the Finisher files    *)
(*              written and the listing printed;                           *)
(*   SpecRender one call of template.render(value=v) for a drawn v;        *)
(*   SpecEval   one evaluation of an emitted combinator (Result.mapN,      *)
(*              Program.mapN, Program.parMapN with Fiber.mapN), the        *)
(*              emitted body being the one the templates render.           *)
(***************************************************************************)
EXTENDS Integers, Sequences, FiniteSets, TLC

VARIABLES
    \* ---- driver run (Spec)
    phase,      \* position of the driver: which loop it is in
    idx,        \* loop variable i of the current loop
    dirOk,      \* the output directory of the Finisher files exists
    files,      \* arity -> content of FinisherN.java
    stdout,     \* what print() has written, in order
    \* ---- one render call (SpecRender)
    rTemplate,  \* the template render() is called on
    rValue,     \* the value= argument
    rStatus,    \* "pending" | "rendered" (no path sets "rejected")
    rOut,       \* signature of the rendered artifact
    \* ---- one evaluation of an emitted combinator (SpecEval)
    family,     \* "result" | "program" | "parmap"
    arity,      \* N of the emitted mapN / parMapN
    finThrows,  \* the caller's finisher raises a RuntimeException
    pc,         \* position inside the emitted body
    inputs,     \* slot -> outcome of the input (Pending until resolved)
    evals,      \* slots whose p_i.eval(state) has run, in order
    visited,    \* slots whose flatMap/map ran in the last Result chain
    applied,    \* argument tuples finisher.apply was invoked with
    out,        \* what the combinator produced
    thrown,     \* RuntimeException in flight inside the try block
    escaped,    \* fault that left the combinator uncaught
    calls,      \* invocations of callback.accept, in order
    log,        \* fork / join events of parMapN, in order
    stage,      \* Fiber.mapN: index of the future the chain waits on
    combined    \* Fiber.mapN: outcome of the combined future

genVars    == <<phase, idx, dirOk, files, stdout>>
renderVars == <<rTemplate, rValue, rStatus, rOut>>
evalVars   == <<family, arity, finThrows, pc, inputs, evals, visited, applied,
                out, thrown, escaped, calls, log, stage, combined>>
vars       == <<genVars, renderVars, evalVars>>

(***************************************************************************)
(* Arity range of the driver loops: range(2, 10).                          *)
(***************************************************************************)
RangeStart == 2
RangeStop  == 10
Arities    == RangeStart..(RangeStop - 1)

\* Largest value= drawn for a single render call.
MaxValue == 10

(***************************************************************************)
(* Naming: T{{ i }}, t{{ i }}, and the {% for i in range(value) %} loops.  *)
(***************************************************************************)
TName(i) == "T" \o ToString(i)
tName(i) == "t" \o ToString(i)

\* range(n) as a sequence 0, 1, ..., n-1 (empty when n <= 0)
Range(n) == [k \in 1..n |-> k - 1]

(***************************************************************************)
(* finisher_template: the FinisherN interface declaration.                 *)
(***************************************************************************)
\* finisher_template with the apply parameters looped over range(value - 1)
finisher_template_shortParams(value) ==
    [ name       |-> "Finisher" \o ToString(value),
      typeParams |-> [k \in 1..value |-> TName(Range(value)[k])] \o <<"R">>,
      returns    |-> "R",
      method     |-> "apply",
      params     |-> [k \in 1..(value - 1) |->
                        <<TName(Range(value)[k]), tName(Range(value)[k])>>] ]

finisher_template(value) ==
    [ name       |-> "Finisher" \o ToString(value),
      typeParams |-> [k \in 1..value |-> TName(Range(value)[k])] \o <<"R">>,
      returns    |-> "R",
      method     |-> "apply",
      params     |-> [k \in 1..value |->
                        <<TName(Range(value)[k]), tName(Range(value)[k])>>] ]

(***************************************************************************)
(* The combinator templates.  Each rendering is the emitted declaration    *)
(* (container returned, method name, inputs) and the emitted body as the   *)
(* structure the template's loops produce.                                 *)
(***************************************************************************)

\* result_template with finisher.apply given the lambda parameters in
\* descending order
result_template_reversedArgs(value) ==
    [ returns |-> "Result",
      method  |-> "map",
      arity   |-> value,
      inputs  |-> [k \in 1..value |-> <<"Result", TName(Range(value)[k])>>],
      links   |-> [k \in 1..(value - 1) |->
                     [recv |-> Range(value - 1)[k], op |-> "flatMap",
                      bind |-> Range(value - 1)[k]]]
                  \o <<[recv |-> value - 1, op |-> "map", bind |-> value - 1]>>,
      args    |-> [k \in 1..value |-> Range(value)[value + 1 - k]],
      guarded |-> FALSE ]

\* result_template: r0.flatMap(_0 -> ... r{N-1}.map(_{N-1} ->
\*                    finisher.apply(_0, ..., _{N-1})) ...)
result_template(value) ==
    [ returns |-> "Result",
      method  |-> "map",
      arity   |-> value,
      inputs  |-> [k \in 1..value |-> <<"Result", TName(Range(value)[k])>>],
      links   |-> [k \in 1..(value - 1) |->
                     [recv |-> Range(value - 1)[k], op |-> "flatMap",
                      bind |-> Range(value - 1)[k]]]
                  \o <<[recv |-> value - 1, op |-> "map", bind |-> value - 1]>>,
      args    |-> Range(value),
      guarded |-> FALSE ]

\* program_map_template: async((state, callback) -> { try {
\*   callback.accept(Result.mapN(p0.eval(state), ..., finisher), null);
\* } catch (RuntimeException e) { callback.accept(null, e); } })
program_map_template(value) ==
    [ returns |-> "Program",
      method  |-> "map",
      arity   |-> value,
      inputs  |-> [k \in 1..value |-> <<"Program", TName(Range(value)[k])>>],
      evalArgs |-> Range(value),
      delegate |-> value,
      guarded |-> TRUE ]

\* program_parmap_template with the fork arguments in descending order
program_parmap_template_reversedForks(value) ==
    [ returns |-> "Program",
      method  |-> "parMap",
      arity   |-> value,
      inputs  |-> [k \in 1..value |-> <<"Program", TName(Range(value)[k])>>],
      forks   |-> [k \in 1..value |-> Range(value)[value + 1 - k]],
      delegate |-> value,
      fiberArgs |-> Range(value),
      thenJoin |-> TRUE ]

\* program_parmap_template: mapN(p0.fork(executor), ...,
\*   (f0, ...) -> Fiber.mapN(f0, ..., finisher)).flatMap(Fiber::join)
program_parmap_template(value) ==
    [ returns |-> "Program",
      method  |-> "parMap",
      arity   |-> value,
      inputs  |-> [k \in 1..value |-> <<"Program", TName(Range(value)[k])>>],
      forks   |-> Range(value),
      delegate |-> value,
      fiberArgs |-> Range(value),
      thenJoin |-> TRUE ]

\* fiber_template with Result.mapN given the lambda parameters in descending
\* order
fiber_template_reversedArgs(value) ==
    [ returns |-> "Fiber",
      method  |-> "map",
      arity   |-> value,
      inputs  |-> [k \in 1..value |-> <<"Fiber", TName(Range(value)[k])>>],
      links   |-> [k \in 1..(value - 1) |->
                     [recv |-> Range(value - 1)[k], op |-> "thenComposeAsync",
                      bind |-> Range(value - 1)[k]]]
                  \o <<[recv |-> value - 1, op |-> "thenApplyAsync",
                        bind |-> value - 1]>>,
      args    |-> [k \in 1..value |-> Range(value)[value + 1 - k]],
      delegate |-> value ]

\* fiber_template: f0.future.thenComposeAsync(_0 -> ...
\*   f{N-1}.future.thenApplyAsync(_{N-1} -> Result.mapN(_0, ..., finisher)))
fiber_template(value) ==
    [ returns |-> "Fiber",
      method  |-> "map",
      arity   |-> value,
      inputs  |-> [k \in 1..value |-> <<"Fiber", TName(Range(value)[k])>>],
      links   |-> [k \in 1..(value - 1) |->
                     [recv |-> Range(value - 1)[k], op |-> "thenComposeAsync",
                      bind |-> Range(value - 1)[k]]]
                  \o <<[recv |-> value - 1, op |-> "thenApplyAsync",
                        bind |-> value - 1]>>,
      args    |-> Range(value),
      delegate |-> value ]

\* What one listing entry shows of a rendered combinator.
Signature(r) == [header |-> "", returns |-> r.returns, method |-> r.method,
                 arity |-> r.arity]

Header(text) == [header |-> text, returns |-> "", method |-> "", arity |-> 0]

\* template.render(value=...) of the four printed families, by the name of
\* the template variable
Render(t, value) ==
    CASE t = "result_template"         -> Signature(result_template(value))
      [] t = "program_map_template"    -> Signature(program_map_template(value))
      [] t = "fiber_template"          -> Signature(fiber_template(value))
      [] t = "program_parmap_template" -> Signature(program_parmap_template(value))
      [] t = "finisher_template"       ->
            [header |-> "", returns |-> finisher_template(value).name,
             method |-> "apply", arity |-> Len(finisher_template(value).params)]

Templates == {"finisher_template", "result_template", "program_map_template",
              "fiber_template", "program_parmap_template"}

(***************************************************************************)
(* The driver, lines 67-85.                                                *)
(***************************************************************************)
\* the print loops with the last two exchanged
PrintLoops_parmapBeforeFiber ==
    << [template |-> "result_template",         header |-> ">>>> result"],
       [template |-> "program_map_template",    header |-> ">>>> program map"],
       [template |-> "program_parmap_template", header |-> ">>>> program parmap"],
       [template |-> "fiber_template",          header |-> ">>>> fiber"] >>

\* order of the print loops and their ">>>>" headers
PrintLoops ==
    << [template |-> "result_template",         header |-> ">>>> result"],
       [template |-> "program_map_template",    header |-> ">>>> program map"],
       [template |-> "fiber_template",          header |-> ">>>> fiber"],
       [template |-> "program_parmap_template", header |-> ">>>> program parmap"] >>

NoFile    == [name |-> "", typeParams |-> <<>>, returns |-> "", method |-> "",
              params |-> <<>>]
StaleFile == [name |-> "stale", typeParams |-> <<>>, returns |-> "",
              method |-> "", params |-> <<>>]

\* Values of the variables a specification does not use.
GenIdle ==
    /\ phase = 0 /\ idx = 0 /\ dirOk = TRUE
    /\ files = [n \in Arities |-> NoFile] /\ stdout = <<>>
RenderIdle ==
    /\ rTemplate = "" /\ rValue = 0 /\ rStatus = "idle" /\ rOut = Header("")
EvalIdle ==
    /\ family = "" /\ arity = 0 /\ finThrows = FALSE /\ pc = "idle"
    /\ inputs = <<>> /\ evals = <<>> /\ visited = <<>> /\ applied = <<>>
    /\ out = [kind |-> "none", val |-> <<>>] /\ thrown = "none"
    /\ escaped = "none"
    /\ calls = <<>> /\ log = <<>> /\ stage = 0
    /\ combined = [kind |-> "none", val |-> <<>>]

\* phase 0 is the Finisher file loop, phase k >= 1 the k-th print loop,
\* idx = RangeStart - 1 in a print loop means its header is not printed yet
GenInit ==
    /\ phase = 0
    /\ idx = RangeStart
    /\ dirOk \in BOOLEAN
    /\ files \in [Arities -> {NoFile, StaleFile}]
    /\ (~dirOk => files = [n \in Arities |-> NoFile])
    /\ stdout = <<>>

PhaseDone    == Len(PrintLoops) + 1
PhaseAborted == Len(PrintLoops) + 2

\* for i in range(2, 10): with open(.../Finisher{i}.java, 'w') as file:
\*     file.write(finisher_template.render(value=i))
WriteFinisher ==
    /\ phase = 0 /\ idx < RangeStop /\ dirOk
    /\ files' = [files EXCEPT ![idx] = finisher_template(idx)]
    /\ idx' = idx + 1
    /\ UNCHANGED <<phase, dirOk, stdout>>
    /\ UNCHANGED <<renderVars, evalVars>>

\* open() raises FileNotFoundError when the directory is missing: the run
\* ends at the first iteration with nothing written
OpenFails ==
    /\ phase = 0 /\ idx < RangeStop /\ ~dirOk
    /\ phase' = PhaseAborted
    /\ UNCHANGED <<idx, dirOk, files, stdout>>
    /\ UNCHANGED <<renderVars, evalVars>>

\* a loop is exhausted: on to the next print loop, or the end of the script
NextLoop ==
    /\ phase < PhaseDone /\ idx = RangeStop
    /\ phase' = phase + 1
    /\ idx' = IF phase + 1 = PhaseDone THEN idx ELSE RangeStart - 1
    /\ UNCHANGED <<dirOk, files, stdout>>
    /\ UNCHANGED <<renderVars, evalVars>>

\* print(">>>> ...")
PrintHeader ==
    /\ phase \in 1..Len(PrintLoops) /\ idx = RangeStart - 1
    /\ stdout' = Append(stdout, Header(PrintLoops[phase].header))
    /\ idx' = RangeStart
    /\ UNCHANGED <<phase, dirOk, files>>
    /\ UNCHANGED <<renderVars, evalVars>>

\* for i in range(2, 10): print(<template>.render(value=i))
PrintBody ==
    /\ phase \in 1..Len(PrintLoops) /\ idx \in Arities
    /\ stdout' = Append(stdout, Render(PrintLoops[phase].template, idx))
    /\ idx' = idx + 1
    /\ UNCHANGED <<phase, dirOk, files>>
    /\ UNCHANGED <<renderVars, evalVars>>

Init == GenInit /\ RenderIdle /\ EvalIdle
Next ==
    \/ WriteFinisher
    \/ OpenFails
    \/ NextLoop
    \/ PrintHeader
    \/ PrintBody
Spec == Init /\ [][Next]_vars

(***************************************************************************)
(* One render call.  jinja2 renders any integer value; none of the         *)
(* templates, and nothing in the script, checks it.                        *)
(***************************************************************************)
RenderInit ==
    /\ rTemplate \in Templates
    /\ rValue \in 0..MaxValue
    /\ rStatus = "pending"
    /\ rOut = Header("")

RenderCall ==
    /\ rStatus = "pending"
    /\ rStatus' = "rendered"
    /\ rOut' = Render(rTemplate, rValue)
    /\ UNCHANGED <<rTemplate, rValue>>
    /\ UNCHANGED <<genVars, evalVars>>

InitRender == RenderInit /\ GenIdle /\ EvalIdle
NextRender == RenderCall
SpecRender == InitRender /\ [][NextRender]_vars

(***************************************************************************)
(* Evaluation of the emitted combinators.                                  *)
(*                                                                         *)
(* An outcome is [kind, val]: "ok" carries the value, "fail" the error of  *)
(* a failed Result, "fault" is a RuntimeException raised by the finisher.  *)
(* The input of slot i carries i, so values tell their slot; the finisher  *)
(* is the concatenation of its arguments, so its result tells their order. *)
(***************************************************************************)
Pending == [kind |-> "pending", val |-> <<>>]
NoOutcome == [kind |-> "none", val |-> <<>>]
Null == [kind |-> "null", val |-> <<>>]
Fault == [kind |-> "fault", val |-> <<>>]
Resolved(kind, slot) == [kind |-> kind, val |-> <<slot>>]

\* finisher.apply(a1, ..., aN)
Finisher_apply(a, throws) == IF throws THEN Fault ELSE [kind |-> "ok", val |-> a]

\* Result.flatMap and Result.map leave a failure as it is and hand the value
\* of a success to the function; neither catches what the function raises.
Result_isFailure(r) == r.kind = "fail"

\* The emitted Result.mapN body, link by link:
\*   r_i.flatMap(_i -> <next link>)  and  r_{N-1}.map(_ -> finisher.apply(...))
\* env binds the lambda parameters _i; seen lists the receivers reached.
RECURSIVE EvalLinks(_, _, _, _, _, _)
EvalLinks(body, rs, k, env, seen, throws) ==
    LET link == body.links[k]
        r    == rs[link.recv + 1]
        now  == Append(seen, link.recv)
    IN  IF Result_isFailure(r)
        THEN [out |-> r, visited |-> now, applied |-> <<>>]
        ELSE LET env2 == (link.bind :> r.val[1]) @@ env IN
             IF link.op = "flatMap"
             THEN EvalLinks(body, rs, k + 1, env2, now, throws)
             ELSE LET a == [j \in 1..Len(body.args) |-> env2[body.args[j]]] IN
                  [out |-> Finisher_apply(a, throws), visited |-> now,
                   applied |-> <<a>>]

Result_mapN(n, rs, throws) ==
    EvalLinks(result_template(n), rs, 1, <<>>, <<>>, throws)

\* the forked slot whose handle is the j-th argument of Fiber.mapN
Handles(n) ==
    [j \in 1..n |-> program_parmap_template(n).forks[
                        program_parmap_template(n).fiberArgs[j] + 1]]

\* the Result the fiber chain has bound to its lambda parameter _b
BoundResult(n, b) ==
    LET ft == fiber_template(n)
        l  == CHOOSE l \in 1..Len(ft.links) : ft.links[l].bind = b
    IN  inputs[Handles(n)[ft.links[l].recv + 1] + 1]

EvalInit ==
    /\ family \in {"result", "program", "parmap"}
    /\ arity \in Arities
    /\ finThrows \in BOOLEAN
    /\ pc = "start"
    /\ IF family = "result"
       THEN \E kinds \in [1..arity -> {"ok", "fail"}] :
               inputs = [k \in 1..arity |-> Resolved(kinds[k], k - 1)]
       ELSE inputs = [k \in 1..arity |-> Pending]
    /\ evals = <<>> /\ visited = <<>> /\ applied = <<>>
    /\ out = NoOutcome /\ thrown = "none" /\ escaped = "none"
    /\ calls = <<>> /\ log = <<>> /\ stage = 0
    /\ combined = NoOutcome

\* ---- Result.mapN(r0, ..., r{N-1}, finisher), called directly
CallResultMap ==
    /\ family = "result" /\ pc = "start"
    /\ LET e == Result_mapN(arity, inputs, finThrows) IN
         /\ visited' = e.visited
         /\ applied' = e.applied
         /\ IF e.out.kind = "fault" /\ ~result_template(arity).guarded
            THEN out' = out /\ escaped' = "finisher"
            ELSE out' = e.out /\ escaped' = escaped
    /\ pc' = "done"
    /\ UNCHANGED <<family, arity, finThrows, inputs, evals, thrown, calls,
                   log, stage, combined>>
    /\ UNCHANGED <<genVars, renderVars>>

\* ---- Program.mapN: the arguments p_i.eval(state) of Result.mapN(...) are
\* evaluated one after the other, all of them, before Result.mapN is entered
ProgramEvalArg ==
    /\ family = "program" /\ pc = "start"
    /\ Len(evals) < Len(program_map_template(arity).evalArgs)
    /\ LET slot == program_map_template(arity).evalArgs[Len(evals) + 1] IN
         /\ \E kind \in {"ok", "fail"} :
               inputs' = [inputs EXCEPT ![slot + 1] = Resolved(kind, slot)]
         /\ evals' = Append(evals, slot)
    /\ UNCHANGED <<family, arity, finThrows, pc, visited, applied, out, thrown,
                   escaped, calls, log, stage, combined>>
    /\ UNCHANGED <<genVars, renderVars>>

\* Result.mapN(...) inside the try block
ProgramDelegate ==
    /\ family = "program" /\ pc = "start"
    /\ Len(evals) = Len(program_map_template(arity).evalArgs)
    /\ LET e == Result_mapN(program_map_template(arity).delegate, inputs,
                            finThrows) IN
         /\ visited' = e.visited
         /\ applied' = e.applied
         /\ IF e.out.kind = "fault"
            THEN /\ out' = out
                 /\ IF program_map_template(arity).guarded
                    THEN thrown' = "finisher" /\ pc' = "catch"
                                              /\ escaped' = escaped
                    ELSE thrown' = thrown /\ pc' = "done"
                                          /\ escaped' = "finisher"
            ELSE out' = e.out /\ pc' = "accept" /\ thrown' = thrown
                              /\ escaped' = escaped
    /\ UNCHANGED <<family, arity, finThrows, inputs, evals, calls, log, stage,
                   combined>>
    /\ UNCHANGED <<genVars, renderVars>>

\* callback.accept(<result>, null), still inside the try block: what the
\* callback raises is caught by the same catch
CallbackAccept ==
    /\ family = "program" /\ pc = "accept"
    /\ calls' = Append(calls, [result |-> out, fault |-> "null"])
    /\ \E raises \in BOOLEAN :
          IF raises
          THEN IF program_map_template(arity).guarded
               THEN thrown' = "callback" /\ pc' = "catch" /\ escaped' = escaped
               ELSE thrown' = thrown /\ pc' = "done" /\ escaped' = "callback"
          ELSE thrown' = thrown /\ pc' = "done" /\ escaped' = escaped
    /\ UNCHANGED <<family, arity, finThrows, inputs, evals, visited, applied,
                   out, log, stage, combined>>
    /\ UNCHANGED <<genVars, renderVars>>

\* catch (RuntimeException e) { callback.accept(null, e); }
CallbackCatch ==
    /\ family = "program" /\ pc = "catch"
    /\ calls' = Append(calls, [result |-> Null, fault |-> thrown])
    /\ thrown' = "none"
    /\ \E raises \in BOOLEAN :
          escaped' = IF raises THEN "callback" ELSE escaped
    /\ pc' = "done"
    /\ UNCHANGED <<family, arity, finThrows, inputs, evals, visited, applied,
                   out, log, stage, combined>>
    /\ UNCHANGED <<genVars, renderVars>>

\* ---- Program.parMapN: the arguments p_i.fork(executor) of the outer mapN
\* are evaluated in argument order; each detaches p_i onto the executor
ParFork ==
    /\ family = "parmap" /\ pc = "start"
    /\ Len(evals) < Len(program_map_template(arity).evalArgs)
    /\ LET arg  == program_map_template(arity).evalArgs[Len(evals) + 1]
           slot == program_parmap_template(arity).forks[arg + 1] IN
         /\ evals' = Append(evals, slot)
         /\ log' = Append(log, <<"fork", slot>>)
    /\ UNCHANGED <<family, arity, finThrows, pc, inputs, visited, applied, out,
                   thrown, escaped, calls, stage, combined>>
    /\ UNCHANGED <<genVars, renderVars>>

\* a forked computation finishes on the executor, with a success or a failure
\* (an input that raises instead of returning a Result is not modelled)
TaskComplete ==
    /\ family = "parmap"
    /\ \E k \in 1..Len(evals) :
          /\ inputs[evals[k] + 1] = Pending
          /\ \E kind \in {"ok", "fail"} :
                inputs' = [inputs EXCEPT ![evals[k] + 1] =
                                            Resolved(kind, evals[k])]
    /\ UNCHANGED <<family, arity, finThrows, pc, evals, visited, applied, out,
                   thrown, escaped, calls, log, stage, combined>>
    /\ UNCHANGED <<genVars, renderVars>>

\* every fork returned a handle: the outer mapN invokes its finisher,
\* (f0, ...) -> Fiber.mapN(f0, ..., finisher), which registers the chain on
\* the first future and returns the combined handle
ParCombine ==
    /\ family = "parmap" /\ pc = "start"
    /\ Len(evals) = Len(program_map_template(arity).evalArgs)
    /\ stage' = 1
    /\ pc' = "combined"
    /\ UNCHANGED <<family, arity, finThrows, inputs, evals, visited, applied,
                   out, thrown, escaped, calls, log, combined>>
    /\ UNCHANGED <<genVars, renderVars>>

\* Fiber.mapN: the stage registered on future f_j runs once f_j has completed,
\* whatever Result it completed with.  thenComposeAsync registers the next
\* stage; thenApplyAsync completes the combined future with Result.mapN of
\* the bound Results (exceptionally when the finisher raises)
FiberStage ==
    /\ family = "parmap" /\ pc \in {"combined", "joining"}
    /\ combined = NoOutcome
    /\ stage \in 1..Len(fiber_template(arity).links)
    /\ LET ft   == fiber_template(arity)
           link == ft.links[stage]
           slot == Handles(arity)[link.recv + 1] IN
         /\ inputs[slot + 1] # Pending
         /\ IF link.op = "thenComposeAsync"
            THEN UNCHANGED <<combined, visited, applied>>
            ELSE LET e == Result_mapN(ft.delegate,
                              [j \in 1..Len(ft.args) |->
                                  BoundResult(arity, ft.args[j])],
                              finThrows) IN
                   /\ combined' = e.out
                   /\ visited' = e.visited
                   /\ applied' = e.applied
    /\ stage' = stage + 1
    /\ UNCHANGED <<family, arity, finThrows, pc, inputs, evals, out, thrown,
                   escaped, calls, log>>
    /\ UNCHANGED <<genVars, renderVars>>

\* .flatMap(Fiber::join): join is called on the combined handle
JoinCall ==
    /\ family = "parmap" /\ pc = "combined"
    /\ program_parmap_template(arity).thenJoin
    /\ log' = Append(log, <<"join", arity>>)
    /\ pc' = "joining"
    /\ UNCHANGED <<family, arity, finThrows, inputs, evals, visited, applied,
                   out, thrown, escaped, calls, stage, combined>>
    /\ UNCHANGED <<genVars, renderVars>>

\* join returns what the combined future completed with
JoinReturn ==
    /\ family = "parmap" /\ pc = "joining"
    /\ combined # NoOutcome
    /\ out' = combined
    /\ pc' = "done"
    /\ UNCHANGED <<family, arity, finThrows, inputs, evals, visited, applied,
                   thrown, escaped, calls, log, stage, combined>>
    /\ UNCHANGED <<genVars, renderVars>>

InitEval == EvalInit /\ GenIdle /\ RenderIdle
NextEval ==
    \/ CallResultMap
    \/ ProgramEvalArg
    \/ ProgramDelegate
    \/ CallbackAccept
    \/ CallbackCatch
    \/ ParFork
    \/ TaskComplete
    \/ ParCombine
    \/ FiberStage
    \/ JoinCall
    \/ JoinReturn
SpecEval == InitEval /\ [][NextEval]_vars

(***************************************************************************)
(* Properties.                                                             *)
(***************************************************************************)
\* position of the first failed input, 0 when no input has failed
FirstFailure ==
    IF \E k \in 1..arity : inputs[k].kind = "fail"
    THEN CHOOSE k \in 1..arity :
            /\ inputs[k].kind = "fail"
            /\ \A j \in 1..(k - 1) : inputs[j].kind # "fail"
    ELSE 0

\* the first failure is known: it and every input before it are resolved
FirstFailureResolved ==
    /\ FirstFailure > 0
    /\ \A j \in 1..(FirstFailure - 1) : inputs[j].kind = "ok"

\* inputs a sequential mapN has evaluated: eval calls for Program,
\* receivers reached by the chain for Result
EvaluatedCount == IF family = "program" THEN Len(evals) ELSE Len(visited)

\* C1: in a finished Result.mapN or Program.mapN whose k-th input (0-indexed)
\* failed after k successes, the result is that failure and exactly k+1
\* inputs were evaluated.
C1_ShortCircuit ==
    (family \in {"result", "program"} /\ pc = "done" /\ FirstFailureResolved)
        => /\ out = inputs[FirstFailure]
           /\ EvaluatedCount = FirstFailure

\* C2: the finisher is applied at most once, only when every input
\* succeeded, and then to the values of slots 0..N-1 in that order.
C2_FinisherOnceInSlotOrder ==
    /\ Len(applied) <= 1
    /\ applied # <<>> =>
          /\ \A k \in 1..arity : inputs[k].kind = "ok"
          /\ applied[1] = [k \in 1..arity |-> inputs[k].val[1]]

C2_Witness ==
    /\ family = "program" /\ pc = "done" /\ arity = RangeStop - 1
    /\ Len(applied) = 1

\* C3: a RuntimeException raised by the finisher never leaves an emitted
\* sequential-combine uncaught.
C3_FinisherFaultConverted == escaped # "finisher"

\* C4: the forks of parMapN are issued for p0, p1, ... in that order, and
\* a join is logged only after all N of them.
C4_ForksBeforeJoin ==
    \A p \in 1..Len(log) :
        IF log[p][1] = "fork"
        THEN log[p] = <<"fork", p - 1>>
        ELSE /\ p = arity + 1
             /\ \A q \in 1..arity : log[q] = <<"fork", q - 1>>

C4_Witness ==
    /\ family = "parmap" /\ arity = RangeStop - 1
    /\ Len(log) = arity + 1 /\ log[arity + 1][1] = "join"

\* C5: what a finished parMapN returns is what Result.mapN returns for the
\* Results its forked inputs resolved to, whatever order they resolved in.
C5_ParEqualsSeq ==
    (family = "parmap" /\ pc = "done" /\ ~finThrows)
        => out = Result_mapN(arity, inputs, finThrows).out

C5_Witness ==
    /\ family = "parmap" /\ pc = "done" /\ ~finThrows
    /\ arity = RangeStop - 1
    /\ out.kind = "fail" /\ FirstFailure = 2

\* C6: once the handles are combined, a first failure at handle k completes
\* the combined handle with no wait for a handle after k: until it is
\* complete the chain can always take its next step, and it completes with
\* that failure.
C6_NoWaitOnLaterHandles ==
    (family = "parmap" /\ pc \in {"combined", "joining"} /\ FirstFailureResolved)
        => IF combined = NoOutcome
           THEN ENABLED FiberStage
           ELSE combined = inputs[FirstFailure]

C8_FinisherDeclaration ==
    \A n \in Arities :
        /\ phase \in 1..PhaseDone => files[n] \notin {NoFile, StaleFile}
        /\ files[n] \notin {NoFile, StaleFile} =>
              /\ files[n].name = "Finisher" \o ToString(n)
              /\ Len(files[n].typeParams) = n + 1
              /\ \A i \in 0..(n - 1) :
                    files[n].typeParams[i + 1] = "T" \o ToString(i)
              /\ files[n].typeParams[n + 1] = "R"
              /\ files[n].method = "apply"
              /\ files[n].returns = "R"
              /\ Len(files[n].params) = n
              /\ \A i \in 0..(n - 1) :
                    files[n].params[i + 1] =
                        <<files[n].typeParams[i + 1], "t" \o ToString(i)>>

C8_Witness ==
    /\ phase = PhaseDone
    /\ \A n \in Arities : Len(files[n].params) = n

\* the combinator bodies of the listing, headers left out
Bodies == SelectSeq(stdout, LAMBDA e : e.header = "")

Families == { <<"Result", "map">>, <<"Program", "map">>, <<"Fiber", "map">>,
              <<"Program", "parMap">> }

FamilyOf(e) == <<e.returns, e.method>>

\* no parallel-combine body precedes a sequential-combine body
SequentialBeforeParallel ==
    \A a, b \in 1..Len(Bodies) :
        a < b => ~(Bodies[a].method = "parMap" /\ Bodies[b].method = "map")

\* a finished run has printed each family once for each arity
EveryFamilyEveryArity ==
    phase = PhaseDone =>
        \A f \in Families : \A n \in Arities :
            Cardinality({p \in 1..Len(Bodies) :
                            FamilyOf(Bodies[p]) = f /\ Bodies[p].arity = n}) = 1

\* C9 as stated: sequential-combine before parallel-combine, the bodies of
\* one target abstraction contiguous, every family for every arity.
C9_GroupedByAbstraction ==
    /\ SequentialBeforeParallel
    /\ \A a, c \in 1..Len(Bodies) :
          (a < c /\ Bodies[a].returns = Bodies[c].returns)
              => \A b \in a..c : Bodies[b].returns = Bodies[a].returns
    /\ EveryFamilyEveryArity

\* C9 amended: sequential-combine before parallel-combine, the bodies of one
\* family (target abstraction and shape) contiguous and in ascending arity
\* from 2 without gaps, every family for every arity.
C9_GroupedByFamily ==
    /\ SequentialBeforeParallel
    /\ \A p \in 1..Len(Bodies) :
          IF p > 1 /\ FamilyOf(Bodies[p - 1]) = FamilyOf(Bodies[p])
          THEN Bodies[p].arity = Bodies[p - 1].arity + 1
          ELSE /\ Bodies[p].arity = RangeStart
               /\ \A q \in 1..(p - 1) : FamilyOf(Bodies[q]) # FamilyOf(Bodies[p])
    /\ EveryFamilyEveryArity

C9_Witness ==
    /\ phase = PhaseDone
    /\ Len(Bodies) = Cardinality(Families) * Cardinality(Arities)

\* C10: a finished Program.mapN has invoked its callback exactly once, with
\* a result and no fault or with a fault and no result.
C10_CallbackExactlyOnce ==
    (family = "program" /\ pc = "done")
        => /\ Len(calls) = 1
           /\ (calls[1].result = Null) # (calls[1].fault = "null")

====
